---- MODULE Spec2Model ----
(***************************************************************************)
(* Model of the echopixel DICOM generators (src/python):                   *)
(*   generate_echo_dicom.py            "v1"        raw multi-frame + singles*)
(*   generate_echo_dicom_v2.py         "v2"        raw multi-frame          *)
(*   generate_echo_dicom_jpeg.py       "jpeg"      JPEG, encapsulated       *)
(*   generate_echo_dicom_realistic.py  "realistic" JPEG, encapsulated       *)
(*                                                                         *)
(* A run of one generator is a small state machine: the frame loop, the    *)
(* construction of the dataset, and save_as.  Rasters are uint8 arrays     *)
(* (rows of bytes), compressed payloads and pixel data are byte sequences. *)
(* The JPEG encoder is opaque (bytes out, or an exception).                *)
(***************************************************************************)
EXTENDS Integers, Sequences, FiniteSets, TLC

VARIABLES
    variant,        \* which generator script runs
    width, height,  \* image size arguments
    num_frames,     \* num_frames argument (v2: computed by the prologue)
    target_bytes,   \* v2: target_size_mb * 1024 * 1024
    frame_rate,     \* frame_rate argument
    include_color,  \* realistic: include_color_doppler
    pc,             \* position of the run
    i,              \* loop index
    frames,         \* v1/v2: list of generated rasters
    jpeg_frames,    \* jpeg/realistic: list of compressed payloads
    produced,       \* history: produced[k+1] is what frame index k yielded
    ds,             \* the dataset under construction / to be saved
    files,          \* files written so far, in order
    entry,          \* "main": the script's main(); "direct": a call of generate_*
    quality,        \* the quality argument (main: sys.argv[3], then clamped)
    requested,      \* history: the quality the caller asked for
    computed,       \* history: what the frame pipeline has computed so far
    raised,         \* the statement that raised, "none" while nothing has
    samples,        \* anatomy study: the contours computed so far
    pixel,          \* pixel study: the samples of one pixel through the pipeline
    rng,            \* np.random: the process-wide random source
    calls           \* calls of generate_realistic_frame, by caller

callVars == <<entry, quality, requested>>
studyVars == <<samples, pixel, rng, calls>>

vars == <<variant, width, height, num_frames, target_bytes, frame_rate,
          include_color, pc, i, frames, jpeg_frames, produced, ds, files,
          entry, quality, requested, computed, raised, samples, pixel, rng,
          calls>>

----------------------------------------------------------------------------
(* Bounds of the model *)

MaxFrames == 3
MaxDim == 2
MaxSide == 6
MaxJpegLen == 3
MaxPayloadLen == 7

----------------------------------------------------------------------------
(* Bytes and little-endian words *)

\* struct.pack('<I', n)
LE32(n) == << n % 256, (n \div 256) % 256, (n \div 65536) % 256,
              (n \div 16777216) % 256 >>

\* item tag (FFFE,E000), little endian
ItemTag == <<254, 255, 0, 224>>

\* sequence delimiter tag (FFFE,E0DD), little endian
SeqDelimTag == <<254, 255, 221, 224>>

RECURSIVE Concat(_)
Concat(ss) == IF ss = <<>> THEN <<>> ELSE Head(ss) \o Concat(Tail(ss))

----------------------------------------------------------------------------
(* Transfer syntaxes *)

JPEG_BASELINE_UID == "1.2.840.10008.1.2.4.50"
ExplicitVRLittleEndian == "1.2.840.10008.1.2.1"

----------------------------------------------------------------------------
(* pydicom.encaps.encapsulate (fragments_per_frame = 1, has_bot = True)     *)

\* fragment_frame: one fragment per frame, padded with 0x00 to even length
fragment_frame(frame) ==
    IF Len(frame) % 2 = 1 THEN Append(frame, 0) ELSE frame

\* itemize_frame: item tag + 4-byte length + fragment
itemize_frame(frame) ==
    ItemTag \o LE32(Len(fragment_frame(frame))) \o fragment_frame(frame)

\* bot_offsets[:-1]: running sum of the itemised lengths, starting at 0
RECURSIVE bot_offsets(_, _)
bot_offsets(payloads, acc) ==
    IF payloads = <<>> THEN <<>>
    ELSE <<acc>> \o bot_offsets(Tail(payloads),
                                acc + Len(itemize_frame(Head(payloads))))

encapsulate(payloads) ==
    ItemTag \o LE32(4 * Len(payloads))
      \o Concat([k \in 1..Len(payloads) |-> LE32(bot_offsets(payloads, 0)[k])])
      \o Concat([k \in 1..Len(payloads) |-> itemize_frame(payloads[k])])

----------------------------------------------------------------------------
(* numpy arrays *)

\* ndarray.tobytes(order='F') of one raster: column-major
raster_tobytes_fortran(raster) ==
    Concat([c \in 1..Len(raster[1]) |->
               [r \in 1..Len(raster) |-> raster[r][c]]])

\* ndarray.tobytes() of one (rows, cols) uint8 raster: C order, row-major
raster_tobytes(raster) == Concat(raster)

\* np.stack(frames, axis=0).tobytes(): frames in list order, no padding
tobytes(pixel_data) ==
    Concat([k \in 1..Len(pixel_data) |-> raster_tobytes(pixel_data[k])])

\* pixel_data.shape for a stacked (frames, rows, cols) array
shape(pixel_data) ==
    << Len(pixel_data), Len(pixel_data[1]), Len(pixel_data[1][1]) >>

----------------------------------------------------------------------------
(* Speckle generators: the shapes of the arrays they combine *)

Min(a, b) == IF a <= b THEN a ELSE b

\* np.repeat(np.repeat(layer, s, axis=0), s, axis=1)[:height, :width] of a
\* layer of shape (height // s, width // s)
octave_shape(h, w, s) == << Min((h \div s) * s, h), Min((w \div s) * s, w) >>

NoShape == << -1, -1 >>

\* numpy broadcasting of two 2-d shapes: a pair of axes is compatible when
\* the lengths are equal or one of them is 1
broadcast(a, b) ==
    IF a = NoShape \/ b = NoShape THEN NoShape
    ELSE IF \A d \in 1..2 : a[d] = b[d] \/ a[d] = 1 \/ b[d] = 1
         THEN [d \in 1..2 |-> IF a[d] = 1 THEN b[d] ELSE a[d]]
         ELSE NoShape

\* noise += layer: the result must have the shape of noise itself
add_into(noise, layer) ==
    IF broadcast(noise, layer) = noise THEN noise ELSE NoShape

RECURSIVE accumulate(_, _, _, _)
accumulate(noise, h, w, scales) ==
    IF scales = <<>> THEN noise
    ELSE accumulate(add_into(noise, octave_shape(h, w, Head(scales))),
                    h, w, Tail(scales))

\* an array of no elements has no minimum or maximum: min() / max() raise
reduced(shape_) == IF shape_ = NoShape \/ shape_[1] * shape_[2] = 0
                   THEN NoShape ELSE shape_

\* generate_echo_dicom.py generate_speckle_noise: octaves 1, 2, 4 summed into
\* noise, then noise / noise.max(); the shape returned, NoShape when it raises
generate_speckle_noise_v1(w, h) ==
    reduced(accumulate(<<h, w>>, h, w, <<1, 2, 4>>))

\* generate_echo_dicom_v2.py / generate_echo_dicom_jpeg.py
\* generate_speckle_noise: octaves 1, 2, 4, 8
generate_speckle_noise(w, h) ==
    reduced(accumulate(<<h, w>>, h, w, <<1, 2, 4, 8>>))

\* generate_realistic_speckle: fine * 0.5 + medium * 0.35 + coarse * 0.15,
\* times the (height, 1) depth factor, then the min-max normalisation
generate_realistic_speckle(w, h) ==
    reduced(broadcast(broadcast(broadcast(<<h, w>>, octave_shape(h, w, 2)),
                                octave_shape(h, w, 4)),
                      <<h, 1>>))

speckle_shape(v, w, h) ==
    CASE v = "v1" -> generate_speckle_noise_v1(w, h)
      [] v \in {"v2", "jpeg"} -> generate_speckle_noise(w, h)
      [] v = "realistic" -> generate_realistic_speckle(w, h)

\* the frame pipeline of variant v raises for this image size: the speckle
\* generator raises, or its field does not combine with the (h, w) arrays
\* of the sector mask and the heart structure
FrameRaises(v, w, h) == broadcast(speckle_shape(v, w, h), <<h, w>>) # <<h, w>>

----------------------------------------------------------------------------
(* np.random, the process-wide random source.  Its state is what it was last
   seeded with and how many samples were drawn since; the samples a call
   draws are a function of the state the call starts from *)

\* seed = None
NoSeed == -1

\* the state the process starts with (seeded from the operating system)
Entropy == [origin |-> NoSeed, pos |-> 0]

\* np.random.seed(seed)
np_random_seed(seed) == [origin |-> seed, pos |-> 0]

\* the state after n more samples were drawn
advance(state, n) == [state EXCEPT !.pos = @ + n]

\* the block of n samples drawn from state
draw(state, n) == [source |-> state, count |-> n]

\* elements of an array of shape (h // s, w // s)
octave_size(h, w, s) == (h \div s) * (w \div s)

NoField == [shape |-> NoShape]

\* generate_realistic_speckle(width, height, seed) that never seeds
realistic_speckle_field_unseeded(w, h, seed, state) ==
    LET n1 == octave_size(h, w, 1)
        n2 == octave_size(h, w, 2)
        n4 == octave_size(h, w, 4)
    IN  [field |-> IF generate_realistic_speckle(w, h) = NoShape
                   THEN NoField
                   ELSE [shape |-> generate_realistic_speckle(w, h),
                         samples |-> << draw(state, n1),
                                        draw(advance(state, n1), n2),
                                        draw(advance(state, n1 + n2), n4) >>],
         rng |-> advance(state, n1 + n2 + n4)]

\* generate_realistic_speckle(width, height, seed) called when the random
\* source is in state: the field returned (NoField when the call raises) and
\* the state the call leaves.  fine, medium and coarse are drawn one after
\* the other; filtering, upsampling and normalisation draw nothing
realistic_speckle_field(w, h, seed, state) ==
    LET s0 == IF seed # NoSeed THEN np_random_seed(seed) ELSE state
        n1 == octave_size(h, w, 1)
        n2 == octave_size(h, w, 2)
        n4 == octave_size(h, w, 4)
    IN  [field |-> IF generate_realistic_speckle(w, h) = NoShape
                   THEN NoField
                   ELSE [shape |-> generate_realistic_speckle(w, h),
                         samples |-> << draw(s0, n1),
                                        draw(advance(s0, n1), n2),
                                        draw(advance(s0, n1 + n2), n4) >>],
         rng |-> advance(s0, n1 + n2 + n4)]

\* samples drawn by the octave loop of generate_speckle_noise until it has
\* finished or noise += layer raises
RECURSIVE octave_draws(_, _, _, _)
octave_draws(noise, h, w, scales) ==
    IF scales = <<>> \/ noise = NoShape THEN 0
    ELSE octave_size(h, w, Head(scales))
         + octave_draws(add_into(noise, octave_shape(h, w, Head(scales))),
                        h, w, Tail(scales))

\* generate_speckle_noise(width, height) of v1 / v2 / jpeg: never seeded
speckle_noise_field(v, w, h, state) ==
    LET n == octave_draws(<<h, w>>, h, w,
                          IF v = "v1" THEN <<1, 2, 4>> ELSE <<1, 2, 4, 8>>)
    IN  [field |-> IF speckle_shape(v, w, h) = NoShape
                   THEN NoField
                   ELSE [shape |-> speckle_shape(v, w, h),
                         samples |-> << draw(state, n) >>],
         rng |-> advance(state, n)]

speckle_field(v, w, h, seed, state) ==
    IF v = "realistic" THEN realistic_speckle_field(w, h, seed, state)
                       ELSE speckle_noise_field(v, w, h, state)

----------------------------------------------------------------------------
(* Outputs of the opaque collaborators *)

\* a raster the frame pipeline may return for frame index k: uint8, (h, w);
\* the speckle is drawn from the unseeded random source, hence the set
Raster(w, h, k, noise) ==
    [r \in 1..h |-> [c \in 1..w |-> (noise + 40 * k + 10 * r + c) % 256]]

generate_echo_frame(w, h, k) == { Raster(w, h, k, n) : n \in {0, 128} }

\* a byte string of n bytes as the JPEG encoder may return it (never empty);
\* every fourth byte is 0x00, so some payloads end in the padding value
Payload(n) == [j \in 1..n |-> (64 * j) % 256]

\* buffer.getvalue() after img.save(buffer, format='JPEG', ...)
encode_frame_as_jpeg == { Payload(n) : n \in 1..MaxJpegLen }

----------------------------------------------------------------------------
(* Datasets *)

NoDataset == [TransferSyntaxUID |-> "none"]

\* list.insert(0, x)
list_insert_front(list, x) == <<x>> \o list

\* list.append
list_append(list, x) == Append(list, x)

\* generate_echo_dicom.py create_dicom_dataset
create_dicom_dataset_v1(pixel_data) ==
    [ TransferSyntaxUID |-> ExplicitVRLittleEndian,
      SamplesPerPixel |-> 1,
      PhotometricInterpretation |-> "MONOCHROME2",
      NumberOfFrames |-> shape(pixel_data)[1],
      Rows |-> shape(pixel_data)[2],
      Columns |-> shape(pixel_data)[3],
      PixelData |-> tobytes(pixel_data),
      is_undefined_length |-> FALSE ]

create_dicom_dataset_v2_undefined_length(pixel_data) ==
    [ TransferSyntaxUID |-> ExplicitVRLittleEndian,
      SamplesPerPixel |-> 1,
      PhotometricInterpretation |-> "MONOCHROME2",
      NumberOfFrames |-> shape(pixel_data)[1],
      Rows |-> shape(pixel_data)[2],
      Columns |-> shape(pixel_data)[3],
      PixelData |-> tobytes(pixel_data),
      is_undefined_length |-> TRUE ]

\* generate_echo_dicom_v2.py create_dicom_dataset
create_dicom_dataset_v2(pixel_data) ==
    [ TransferSyntaxUID |-> ExplicitVRLittleEndian,
      SamplesPerPixel |-> 1,
      PhotometricInterpretation |-> "MONOCHROME2",
      NumberOfFrames |-> shape(pixel_data)[1],
      Rows |-> shape(pixel_data)[2],
      Columns |-> shape(pixel_data)[3],
      PixelData |-> tobytes(pixel_data),
      is_undefined_length |-> FALSE ]

\* variants of the two dataset constructors with one statement changed
create_jpeg_dicom_dataset_defined_length(frames_, rows, cols) ==
    [ TransferSyntaxUID |-> JPEG_BASELINE_UID,
      SamplesPerPixel |-> 1,
      PhotometricInterpretation |-> "MONOCHROME2",
      NumberOfFrames |-> Len(frames_),
      Rows |-> rows,
      Columns |-> cols,
      PixelData |-> encapsulate(frames_),
      is_undefined_length |-> FALSE ]

create_jpeg_dicom_dataset_joined(frames_, rows, cols) ==
    [ TransferSyntaxUID |-> JPEG_BASELINE_UID,
      SamplesPerPixel |-> 1,
      PhotometricInterpretation |-> "MONOCHROME2",
      NumberOfFrames |-> Len(frames_),
      Rows |-> rows,
      Columns |-> cols,
      PixelData |-> Concat(frames_),
      is_undefined_length |-> TRUE ]

create_jpeg_dicom_dataset(frames_, rows, cols) ==
    [ TransferSyntaxUID |-> JPEG_BASELINE_UID,
      SamplesPerPixel |-> 1,
      PhotometricInterpretation |-> "MONOCHROME2",
      NumberOfFrames |-> Len(frames_),
      Rows |-> rows,
      Columns |-> cols,
      PixelData |-> encapsulate(frames_),
      is_undefined_length |-> TRUE ]

create_realistic_dicom_dataset_short(frames_, rows, cols, color) ==
    [ TransferSyntaxUID |-> JPEG_BASELINE_UID,
      SamplesPerPixel |-> IF color THEN 3 ELSE 1,
      PhotometricInterpretation |->
          IF color THEN "YBR_FULL_422" ELSE "MONOCHROME2",
      NumberOfFrames |-> Len(frames_),
      Rows |-> rows,
      Columns |-> cols,
      PixelData |-> encapsulate(SubSeq(frames_, 1, Len(frames_) - 1)),
      is_undefined_length |-> TRUE ]

create_realistic_dicom_dataset_joined(frames_, rows, cols, color) ==
    [ TransferSyntaxUID |-> JPEG_BASELINE_UID,
      SamplesPerPixel |-> IF color THEN 3 ELSE 1,
      PhotometricInterpretation |->
          IF color THEN "YBR_FULL_422" ELSE "MONOCHROME2",
      NumberOfFrames |-> Len(frames_),
      Rows |-> rows,
      Columns |-> cols,
      PixelData |-> Concat(frames_),
      is_undefined_length |-> TRUE ]

create_realistic_dicom_dataset(frames_, rows, cols, color) ==
    [ TransferSyntaxUID |-> JPEG_BASELINE_UID,
      SamplesPerPixel |-> IF color THEN 3 ELSE 1,
      PhotometricInterpretation |->
          IF color THEN "YBR_FULL_422" ELSE "MONOCHROME2",
      NumberOfFrames |-> Len(frames_),
      Rows |-> rows,
      Columns |-> cols,
      PixelData |-> encapsulate(frames_),
      is_undefined_length |-> TRUE ]

\* Dataset.save_as: the file carries the dataset's elements; the value of an
\* undefined-length pixel-data element is followed by the sequence delimiter
\* item (FFFE,E0DD) with length 0
save_as(d) ==
    [ dataset |-> d,
      stream |-> IF d.is_undefined_length
                 THEN d.PixelData \o SeqDelimTag \o LE32(0)
                 ELSE d.PixelData ]

----------------------------------------------------------------------------
(* The runs *)

Raw == variant \in {"v1", "v2"}
Compressed == variant \in {"jpeg", "realistic"}

Max(a, b) == IF a >= b THEN a ELSE b

\* quality in the scripts' signatures, width and height in their main()
DefaultQuality == 85
MainWidth == 640
MainHeight == 480

\* the sizes a caller passes: 0, and the multiples of the finest octave grid
Dims == {0} \cup { 4 * k : k \in 1..MaxDim }

\* the qualities a caller asks for: below, inside and above 1..100
Qualities == {0, DefaultQuality, 101}

\* v2: target_size_mb * 1024 * 1024, around whole numbers of frames
TargetBytes(w, h) ==
    { n * w * h + r : n \in 0..MaxFrames, r \in {0, 1} }

NoPixel == [stage |-> "none"]

Init ==
    /\ variant \in {"v1", "v2", "jpeg", "realistic"}
    /\ entry \in (IF Compressed THEN {"main", "direct"} ELSE {"direct"})
    /\ width \in (IF entry = "main" THEN {MainWidth} ELSE Dims)
    /\ height \in (IF entry = "main" THEN {MainHeight} ELSE Dims)
    /\ frame_rate \in (IF variant = "v2" THEN 1..MaxFrames ELSE {1})
    /\ IF variant = "v2"
       THEN /\ target_bytes \in TargetBytes(width, height)
            /\ num_frames = 0
       ELSE /\ target_bytes = 0
            /\ num_frames \in 0..MaxFrames
    /\ include_color \in (IF variant = "realistic" THEN BOOLEAN ELSE {FALSE})
    /\ requested \in (IF Compressed THEN Qualities ELSE {DefaultQuality})
    /\ quality = requested
    /\ pc = IF entry = "main" THEN "main" ELSE "start"
    /\ i = 0
    /\ frames = <<>>
    /\ jpeg_frames = <<>>
    /\ produced = <<>>
    /\ ds = NoDataset
    /\ files = <<>>
    /\ computed = {}
    /\ raised = "none"
    /\ samples = <<>>
    /\ pixel = NoPixel
    /\ rng = Entropy
    /\ calls = <<>>

\* main() of generate_echo_dicom_jpeg.py / generate_echo_dicom_realistic.py:
\* quality = max(1, min(100, quality)), then the call of generate_*
Main ==
    /\ pc = "main"
    /\ quality' = Max(1, Min(100, quality))
    /\ pc' = "start"
    /\ UNCHANGED <<variant, width, height, num_frames, target_bytes,
                   frame_rate, include_color, i, frames, jpeg_frames,
                   produced, ds, files, entry, requested, computed, raised>>
    /\ UNCHANGED studyVars

\* generate_echo_dicom_v2: the divisors of the prologue
SizeDivides ==
    /\ width * height # 0
    /\ (frame_rate * 60) \div 72 # 0

\* the prologue of each generate_* function, up to the frame loop
Start ==
    /\ pc = "start"
    /\ variant = "v2" => SizeDivides
    /\ pc' = "loop"
    /\ num_frames' = IF variant = "v2"
                     THEN Max(target_bytes \div (width * height), frame_rate)
                     ELSE num_frames
    /\ UNCHANGED <<variant, width, height, target_bytes, frame_rate,
                   include_color, i, frames, jpeg_frames, produced, ds, files>>
    /\ UNCHANGED <<callVars, computed, raised, studyVars>>

\* generate_echo_dicom_v2: target_bytes / bytes_per_frame or
\* num_frames // (frame_rate * 60 // 72) raises ZeroDivisionError
SizeFails ==
    /\ pc = "start"
    /\ variant = "v2"
    /\ ~SizeDivides
    /\ pc' = "aborted"
    /\ raised' = "size"
    /\ UNCHANGED <<variant, width, height, num_frames, target_bytes,
                   frame_rate, include_color, i, frames, jpeg_frames,
                   produced, ds, files>>
    /\ UNCHANGED <<callVars, computed, studyVars>>

\* what one successful pass through the frame pipeline computes
Pipeline == {"sector", "noise", "heart", "frame"}

\* one iteration of the frame loop of generate_echo_dicom_files /
\* generate_echo_dicom_v2: generate the raster of frame i and append it
GenerateFrame ==
    /\ pc = "loop"
    /\ Raw
    /\ i < num_frames
    /\ ~FrameRaises(variant, width, height)
    /\ \E frame \in generate_echo_frame(width, height, i) :
          /\ frames' = list_append(frames, frame)
          /\ produced' = Append(produced, frame)
    /\ i' = i + 1
    /\ computed' = computed \cup Pipeline
    /\ UNCHANGED <<variant, width, height, num_frames, target_bytes,
                   frame_rate, include_color, pc, jpeg_frames, ds, files>>
    /\ UNCHANGED <<callVars, raised, studyVars>>

\* the frame pipeline raises in the speckle generator, after the sector mask
\* was computed: nothing catches it, the run ends
GenerateFrameFails ==
    /\ pc = "loop"
    /\ i < num_frames
    /\ FrameRaises(variant, width, height)
    /\ computed' = computed \cup {"sector"}
    /\ pc' = "aborted"
    /\ raised' = "frame"
    /\ UNCHANGED <<variant, width, height, num_frames, target_bytes,
                   frame_rate, include_color, i, frames, jpeg_frames,
                   produced, ds, files>>
    /\ UNCHANGED <<callVars, studyVars>>

\* np.stack([]) raises ValueError: the run ends without a file
StackFails ==
    /\ pc = "loop"
    /\ Raw
    /\ i >= num_frames
    /\ frames = <<>>
    /\ pc' = "aborted"
    /\ UNCHANGED <<variant, width, height, num_frames, target_bytes,
                   frame_rate, include_color, i, frames, jpeg_frames,
                   produced, ds, files>>
    /\ raised' = "stack"
    /\ UNCHANGED <<callVars, computed, studyVars>>

\* pixel_data = np.stack(frames, axis=0); ds = create_dicom_dataset(...)
CreateRawDataset ==
    /\ pc = "loop"
    /\ Raw
    /\ i >= num_frames
    /\ frames # <<>>
    /\ ds' = IF variant = "v1" THEN create_dicom_dataset_v1(frames)
                               ELSE create_dicom_dataset_v2(frames)
    /\ pc' = "save"
    /\ UNCHANGED <<variant, width, height, num_frames, target_bytes,
                   frame_rate, include_color, i, frames, jpeg_frames,
                   produced, files>>
    /\ UNCHANGED <<callVars, computed, raised, studyVars>>

\* Image.fromarray(frame, mode=...) in encode_frame_as_jpeg: the rasters of
\* generate_realistic_frame have three channels with and without the
\* Doppler overlay, those of generate_echo_frame (jpeg) have one
image_mode(v) == IF v = "realistic" THEN "RGB" ELSE "L"

\* one iteration of the frame loop of generate_jpeg_dicom /
\* generate_realistic_dicom: generate frame i, compress it, append the payload
EncodeFrame ==
    /\ pc = "loop"
    /\ Compressed
    /\ i < num_frames
    /\ ~FrameRaises(variant, width, height)
    /\ \E jpeg_data \in encode_frame_as_jpeg :
          /\ jpeg_frames' = list_append(jpeg_frames, jpeg_data)
          /\ produced' = Append(produced, jpeg_data)
    /\ i' = i + 1
    /\ UNCHANGED <<variant, width, height, num_frames, target_bytes,
                   frame_rate, include_color, pc, frames, ds, files>>
    /\ computed' = computed \cup Pipeline \cup {image_mode(variant)}
    /\ UNCHANGED <<callVars, raised, studyVars>>

\* frame i is generated, the encoder raises and the exception is swallowed:
\* the frame is skipped
EncodeFrameFailureSkipped ==
    /\ pc = "loop"
    /\ Compressed
    /\ i < num_frames
    /\ ~FrameRaises(variant, width, height)
    /\ i' = i + 1
    /\ UNCHANGED <<variant, width, height, num_frames, target_bytes,
                   frame_rate, include_color, pc, frames, jpeg_frames,
                   produced, ds, files>>
    /\ computed' = computed \cup Pipeline \cup {image_mode(variant)}
    /\ UNCHANGED <<callVars, raised, studyVars>>

\* frame i is generated, the encoder raises: nothing catches it, the run ends
EncodeFrameFails ==
    /\ pc = "loop"
    /\ Compressed
    /\ i < num_frames
    /\ ~FrameRaises(variant, width, height)
    /\ pc' = "aborted"
    /\ UNCHANGED <<variant, width, height, num_frames, target_bytes,
                   frame_rate, include_color, i, frames, jpeg_frames,
                   produced, ds, files>>
    /\ computed' = computed \cup Pipeline \cup {image_mode(variant)}
    /\ raised' = "encoder"
    /\ UNCHANGED <<callVars, studyVars>>

\* total_jpeg_size: sum of len(jpeg_data)
RECURSIVE total_size(_)
total_size(payloads) ==
    IF payloads = <<>> THEN 0
    ELSE Len(Head(payloads)) + total_size(Tail(payloads))

\* generate_jpeg_dicom: uncompressed_size / total_jpeg_size with no payload
\* raises ZeroDivisionError
CompressionRatioFails ==
    /\ pc = "loop"
    /\ variant = "jpeg"
    /\ i >= num_frames
    /\ total_size(jpeg_frames) = 0
    /\ pc' = "aborted"
    /\ UNCHANGED <<variant, width, height, num_frames, target_bytes,
                   frame_rate, include_color, i, frames, jpeg_frames,
                   produced, ds, files>>
    /\ raised' = "ratio"
    /\ UNCHANGED <<callVars, computed, studyVars>>

\* the dataset of the collected payloads, rows = height, cols = width
compressed_dataset ==
    IF variant = "jpeg"
    THEN create_jpeg_dicom_dataset(jpeg_frames, height, width)
    ELSE create_realistic_dicom_dataset(jpeg_frames, height, width,
                                        include_color)

CreateCompressedDataset ==
    /\ pc = "loop"
    /\ Compressed
    /\ i >= num_frames
    /\ variant = "jpeg" => total_size(jpeg_frames) # 0
    /\ ds' = compressed_dataset
    /\ pc' = "save"
    /\ UNCHANGED <<variant, width, height, num_frames, target_bytes,
                   frame_rate, include_color, i, frames, jpeg_frames,
                   produced, files>>
    /\ UNCHANGED <<callVars, computed, raised, studyVars>>

\* ds.save_as(filepath): the multi-frame file
SaveAs ==
    /\ pc = "save"
    /\ files' = Append(files, save_as(ds))
    /\ pc' = IF variant = "v1" THEN "singles" ELSE "done"
    /\ i' = 0
    /\ UNCHANGED <<variant, width, height, num_frames, target_bytes,
                   frame_rate, include_color, frames, jpeg_frames, produced,
                   ds>>
    /\ UNCHANGED <<callVars, computed, raised, studyVars>>

\* generate_echo_dicom_files: ds_single for frame i, NumberOfFrames = 1
single_frame_dataset(frame) ==
    [create_dicom_dataset_v1(<<frame>>) EXCEPT !.NumberOfFrames = 1]

\* one iteration of the single-frame loop of generate_echo_dicom_files
SaveSingleFrame ==
    /\ pc = "singles"
    /\ i < Len(frames)
    /\ ds' = single_frame_dataset(frames[i + 1])
    /\ files' = Append(files, save_as(ds'))
    /\ i' = i + 1
    /\ UNCHANGED <<variant, width, height, num_frames, target_bytes,
                   frame_rate, include_color, pc, frames, jpeg_frames,
                   produced>>
    /\ UNCHANGED <<callVars, computed, raised, studyVars>>

FinishSingles ==
    /\ pc = "singles"
    /\ i >= Len(frames)
    /\ pc' = "done"
    /\ UNCHANGED <<variant, width, height, num_frames, target_bytes,
                   frame_rate, include_color, i, frames, jpeg_frames,
                   produced, ds, files>>
    /\ UNCHANGED <<callVars, computed, raised, studyVars>>

----------------------------------------------------------------------------
(* Direct calls of create_jpeg_dicom_dataset / create_realistic_dicom_dataset
   with an arbitrary list of payloads, followed by save_as *)

payload_inputs == { Payload(n) : n \in 1..MaxPayloadLen }

InitEncap ==
    /\ variant \in {"jpeg", "realistic"}
    /\ width = 1
    /\ height = 1
    /\ frame_rate = 1
    /\ target_bytes = 0
    /\ num_frames = 0
    /\ include_color \in (IF variant = "realistic" THEN BOOLEAN ELSE {FALSE})
    /\ pc = "direct"
    /\ i = 0
    /\ frames = <<>>
    /\ jpeg_frames = <<>>
    /\ produced = <<>>
    /\ ds = NoDataset
    /\ files = <<>>
    /\ entry = "direct"
    /\ requested = DefaultQuality
    /\ quality = requested
    /\ computed = {}
    /\ raised = "none"
    /\ samples = <<>>
    /\ pixel = NoPixel
    /\ rng = Entropy
    /\ calls = <<>>

\* the caller builds the argument list
ChoosePayload ==
    /\ pc = "direct"
    /\ Len(jpeg_frames) < MaxFrames
    /\ \E jpeg_data \in payload_inputs :
          /\ jpeg_frames' = list_append(jpeg_frames, jpeg_data)
          /\ produced' = Append(produced, jpeg_data)
    /\ UNCHANGED <<variant, width, height, num_frames, target_bytes,
                   frame_rate, include_color, pc, i, frames, ds, files>>
    /\ UNCHANGED <<callVars, computed, raised, studyVars>>

DirectCreate ==
    /\ pc = "direct"
    /\ ds' = compressed_dataset
    /\ pc' = "save"
    /\ UNCHANGED <<variant, width, height, num_frames, target_bytes,
                   frame_rate, include_color, i, frames, jpeg_frames,
                   produced, files>>
    /\ UNCHANGED <<callVars, computed, raised, studyVars>>

NextEncap ==
    \/ ChoosePayload
    \/ DirectCreate
    \/ SaveAs

SpecEncap == InitEncap /\ [][NextEncap]_vars

----------------------------------------------------------------------------
(* Reference decapsulation: reads a written pixel-data value back as items *)

FromLE32(b) == b[1] + 256 * b[2] + 65536 * b[3] + 16777216 * b[4]

Malformed == [tag |-> <<>>, length |-> 0, value |-> <<>>]

\* a length field that runs past the end of the stream (decided bytewise, so
\* that a field of 2^31 or more is never added up)
RunsPast(b, stream, pos) ==
    \/ b[4] # 0
    \/ b[3] # 0
    \/ pos + 7 + b[1] + 256 * b[2] > Len(stream)

\* the items (tag, 4-byte length, value) of stream from byte position pos
RECURSIVE ParseItems(_, _)
ParseItems(stream, pos) ==
    IF pos > Len(stream) THEN <<>>
    ELSE IF pos + 7 > Len(stream) THEN <<Malformed>>
    ELSE IF RunsPast(SubSeq(stream, pos + 4, pos + 7), stream, pos)
         THEN <<Malformed>>
    ELSE LET len == FromLE32(SubSeq(stream, pos + 4, pos + 7))
         IN  << [tag |-> SubSeq(stream, pos, pos + 3),
                 length |-> len,
                 value |-> SubSeq(stream, pos + 8, pos + 7 + len)] >>
               \o ParseItems(stream, pos + 8 + len)

Items(stream) == ParseItems(stream, 1)

\* an offset-table item, then fragment items, then one delimiter item
WellFormed(stream) ==
    LET it == Items(stream)
    IN  /\ Len(it) >= 2
        /\ \A k \in 1..(Len(it) - 1) : it[k].tag = ItemTag
        /\ it[Len(it)].tag = SeqDelimTag

\* the items after the Basic Offset Table and before the last item
FragmentItems(stream) ==
    LET it == Items(stream)
    IN  IF Len(it) < 2 THEN <<>> ELSE SubSeq(it, 2, Len(it) - 1)

\* the recovered payloads, in stream order
Decapsulate(stream) ==
    [k \in 1..Len(FragmentItems(stream)) |-> FragmentItems(stream)[k].value]

\* the 4-byte entries of the Basic Offset Table
OffsetTable(stream) ==
    LET bot == Items(stream)[1].value
    IN  [k \in 1..(Len(bot) \div 4) |->
            FromLE32(SubSeq(bot, 4 * k - 3, 4 * k))]

\* a payload as it is recovered: one 0x00 after an odd-length payload
WithPad(payload) ==
    IF Len(payload) % 2 = 1 THEN payload \o <<0>> ELSE payload

HasOdd(payloads) == \E k \in 1..Len(payloads) : Len(payloads[k]) % 2 = 1

FileSet == { files[k] : k \in 1..Len(files) }

----------------------------------------------------------------------------
(* Claims *)

\* C1: for any list of payloads (the empty list and lists with odd-length
\* payloads included) the written stream holds, after the Basic Offset
\* Table, exactly one fragment item per payload, and its last item is a
\* sequence delimiter of length 0.
C1_FragmentCountAndDelimiter ==
    \A f \in FileSet :
        LET it == Items(f.stream)
        IN  /\ WellFormed(f.stream)
            /\ Len(FragmentItems(f.stream)) = Len(jpeg_frames)
            /\ it[Len(it)].tag = SeqDelimTag
            /\ it[Len(it)].length = 0
            /\ it[Len(it)].value = <<>>

C1_Witness ==
    /\ pc = "done"
    /\ Len(files) = 1
    /\ Len(jpeg_frames) = MaxFrames
    /\ HasOdd(jpeg_frames)
    /\ Len(FragmentItems(files[1].stream)) = MaxFrames

\* C2: round trip.  Decapsulating the written stream recovers exactly as
\* many payloads as were passed, in the same order, each equal to its input
\* followed by the single 0x00 pad byte when the input has odd length.
C2_RoundTrip ==
    \A f \in FileSet :
        /\ WellFormed(f.stream)
        /\ Len(Decapsulate(f.stream)) = Len(jpeg_frames)
        /\ \A k \in 1..Len(jpeg_frames) :
              Decapsulate(f.stream)[k] = WithPad(jpeg_frames[k])

C2_Witness ==
    /\ pc = "done"
    /\ Len(files) = 1
    /\ Len(jpeg_frames) >= 2
    /\ Len(jpeg_frames[1]) % 2 = 1
    /\ Len(jpeg_frames[2]) % 2 = 0
    /\ jpeg_frames[1] # jpeg_frames[2]
    /\ Decapsulate(files[1].stream)[1] = jpeg_frames[1] \o <<0>>
    /\ Decapsulate(files[1].stream)[2] = jpeg_frames[2]

\* C3: in generate_jpeg_dicom and generate_realistic_dicom the k-th fragment
\* of the written pixel data is the compressed payload of frame index k, for
\* every k in 0..num_frames-1: fragment order equals frame order.
C3_FragmentOrderIsFrameOrder ==
    Compressed =>
        \A f \in FileSet :
            /\ Len(Decapsulate(f.stream)) = num_frames
            /\ Len(produced) = num_frames
            /\ \A k \in 0..(num_frames - 1) :
                  Decapsulate(f.stream)[k + 1] = WithPad(produced[k + 1])

C3_Witness ==
    /\ Compressed
    /\ pc = "done"
    /\ Len(files) = 1
    /\ num_frames = MaxFrames
    /\ Len(produced[1]) > Len(produced[2])
    /\ Len(produced[2]) # Len(produced[MaxFrames])
    /\ Decapsulate(files[1].stream)[1] = WithPad(produced[1])

\* number of fragment items of an encapsulated value that has no delimiter yet
FragmentCount(value) == Len(Items(value)) - 1

\* C4: in every dataset produced by create_jpeg_dicom_dataset or
\* create_realistic_dicom_dataset the declared NumberOfFrames equals the
\* number of fragments of its encapsulated pixel data; no dataset in which
\* the two differ is handed to save_as or found in a written file.
C4_FrameCountMatchesFragments ==
    Compressed =>
        /\ ds # NoDataset =>
              /\ \A k \in 1..Len(Items(ds.PixelData)) :
                    Items(ds.PixelData)[k].tag = ItemTag
              /\ ds.NumberOfFrames = FragmentCount(ds.PixelData)
        /\ \A f \in FileSet :
              /\ WellFormed(f.stream)
              /\ f.dataset.NumberOfFrames = Len(FragmentItems(f.stream))

C4_Witness ==
    /\ variant = "realistic"
    /\ pc = "done"
    /\ Len(files) = 1
    /\ files[1].dataset.NumberOfFrames = 2
    /\ Len(FragmentItems(files[1].stream)) = 2

\* C5: in generate_jpeg_dicom and generate_realistic_dicom a file is written
\* only after all num_frames frames were generated, compressed and collected;
\* a run in which the compression of a frame fails ends without any file.
C5_NoPartialFile ==
    Compressed =>
        /\ files # <<>> =>
              /\ Len(produced) = num_frames
              /\ Len(jpeg_frames) = num_frames
              /\ Len(FragmentItems(files[1].stream)) = num_frames
              /\ pc = "done"
        /\ pc = "aborted" => files = <<>>

C5_Witness ==
    /\ Compressed
    /\ pc = "aborted"
    /\ i >= 1
    /\ i < num_frames
    /\ Len(jpeg_frames) = i
    /\ files = <<>>

\* C6: every emitted fragment item declares an even length: an even-length
\* payload is emitted unchanged with its own length, an odd-length payload
\* with exactly one 0x00 appended and its length plus 1.
C6_EvenFragments ==
    \A f \in FileSet :
        /\ Len(FragmentItems(f.stream)) = Len(jpeg_frames)
        /\ \A k \in 1..Len(jpeg_frames) :
              LET item == FragmentItems(f.stream)[k]
                  payload == jpeg_frames[k]
              IN  /\ item.tag = ItemTag
                  /\ item.length % 2 = 0
                  /\ item.length = Len(item.value)
                  /\ Len(payload) % 2 = 0 =>
                        /\ item.value = payload
                        /\ item.length = Len(payload)
                  /\ Len(payload) % 2 = 1 =>
                        /\ item.value = Append(payload, 0)
                        /\ item.length = Len(payload) + 1

C6_Witness ==
    /\ pc = "done"
    /\ Len(files) = 1
    /\ Len(jpeg_frames) = 2
    /\ Len(jpeg_frames[1]) = 4
    /\ Len(jpeg_frames[2]) = 5
    /\ FragmentItems(files[1].stream)[1].length = 4
    /\ FragmentItems(files[1].stream)[2].length = 6

\* 8 bytes of item header plus the padded payload, summed over the first n
RECURSIVE ItemBytes(_, _)
ItemBytes(payloads, n) ==
    IF n = 0 THEN 0
    ELSE ItemBytes(payloads, n - 1)
           + 8 + Len(payloads[n]) + (Len(payloads[n]) % 2)

\* byte position in the stream at which the k-th fragment item starts
RECURSIVE FragmentStart(_, _)
FragmentStart(stream, k) ==
    IF k = 1 THEN 8 + Items(stream)[1].length + 1
    ELSE FragmentStart(stream, k - 1)
           + 8 + FragmentItems(stream)[k - 1].length

\* C7: the Basic Offset Table has exactly one 4-byte little-endian entry per
\* fragment; entry 0 is 0, entry k is the sum over j < k of (8 + padded
\* length of fragment j), which is the byte offset of fragment k's item from
\* the start of the first fragment item; the entries strictly increase.
C7_BasicOffsetTable ==
    \A f \in FileSet :
        LET bot == Items(f.stream)[1]
            tab == OffsetTable(f.stream)
        IN  /\ bot.tag = ItemTag
            /\ bot.length = 4 * Len(jpeg_frames)
            /\ Len(tab) = Len(jpeg_frames)
            /\ Len(tab) = Len(FragmentItems(f.stream))
            /\ Len(tab) >= 1 => tab[1] = 0
            /\ \A k \in 1..Len(tab) :
                  /\ tab[k] = ItemBytes(jpeg_frames, k - 1)
                  /\ tab[k] = FragmentStart(f.stream, k)
                                - FragmentStart(f.stream, 1)
                  /\ SubSeq(bot.value, 4 * k - 3, 4 * k) = LE32(tab[k])
            /\ \A k \in 1..(Len(tab) - 1) : tab[k] < tab[k + 1]

C7_Witness ==
    /\ pc = "done"
    /\ Len(files) = 1
    /\ Len(jpeg_frames) = 3
    /\ Len(jpeg_frames[1]) = 5
    /\ Len(jpeg_frames[2]) = 2
    /\ OffsetTable(files[1].stream) = <<0, 14, 24>>

\* C8: for payload lengths L1..Lk the stream has (8 + 4k) bytes of offset
\* table item, the sum of (8 + Li + (Li mod 2)) bytes of fragment items and 8
\* bytes of delimiter; for the lengths [5, 6, 7] that is 20 + 44 + 8 = 72.
C8_StreamLength ==
    \A f \in FileSet :
        /\ Len(f.stream) = (8 + 4 * Len(jpeg_frames))
                             + ItemBytes(jpeg_frames, Len(jpeg_frames)) + 8
        /\ [k \in 1..Len(jpeg_frames) |-> Len(jpeg_frames[k])] = <<5, 6, 7>>
              => Len(f.stream) = 72

C8_Witness ==
    /\ pc = "done"
    /\ Len(files) = 1
    /\ [k \in 1..Len(jpeg_frames) |-> Len(jpeg_frames[k])] = <<5, 6, 7>>
    /\ Len(files[1].stream) = 72

\* an encapsulated value: an offset-table item followed by fragment items only
IsEncapsulated(value) ==
    /\ Len(Items(value)) >= 1
    /\ \A k \in 1..Len(Items(value)) : Items(value)[k].tag = ItemTag

\* the two consistent representations of pixel data
CompressedForm(d) ==
    /\ d.TransferSyntaxUID = JPEG_BASELINE_UID
    /\ d.is_undefined_length
    /\ IsEncapsulated(d.PixelData)

RawForm(d) ==
    /\ d.TransferSyntaxUID = ExplicitVRLittleEndian
    /\ ~d.is_undefined_length
    /\ ~IsEncapsulated(d.PixelData)
    /\ Len(d.PixelData) =
          d.NumberOfFrames * d.Rows * d.Columns * d.SamplesPerPixel

\* C9: the pixel-data representation follows the use of a compressor: the
\* datasets of the JPEG variants carry the JPEG Baseline transfer syntax, an
\* encapsulated value and the undefined-length flag (and are written with the
\* delimiter); those of v1 and v2 carry Explicit VR Little Endian, raw bytes
\* and an explicit length.  No dataset mixes the two.
C9_RepresentationConsistent ==
    /\ ds # NoDataset =>
          /\ Compressed => CompressedForm(ds) /\ ~RawForm(ds)
          /\ Raw => RawForm(ds) /\ ~CompressedForm(ds)
    /\ \A f \in FileSet :
          /\ Compressed => /\ CompressedForm(f.dataset)
                           /\ WellFormed(f.stream)
          /\ Raw => /\ RawForm(f.dataset)
                    /\ f.stream = f.dataset.PixelData

C9_Witness ==
    /\ variant = "v2"
    /\ pc = "done"
    /\ Len(files) = 1
    /\ RawForm(files[1].dataset)
    /\ files[1].dataset.NumberOfFrames >= 2

\* index of the run's frame stored as frame k of the n-th written file: the
\* multi-frame file holds every frame, the n-th file of v1 (n > 1) holds the
\* single frame n - 2
FrameOfFile(n, k) == IF n = 1 THEN k ELSE n - 2

\* C10: in the uncompressed variants the pixel data of every written dataset
\* has exactly NumberOfFrames x Rows x Columns x SamplesPerPixel bytes, and
\* for each k the bytes [k*Rows*Columns, (k+1)*Rows*Columns) are the row-major
\* raster of the dataset's frame index k (frame k of the run in a multi-frame
\* file), with no padding between frames.
C10_RawPixelLayout ==
    Raw =>
        \A n \in 1..Len(files) :
            LET d == files[n].dataset
                bytes == files[n].stream
            IN  /\ Len(bytes) = d.NumberOfFrames * d.Rows * d.Columns
                                  * d.SamplesPerPixel
                /\ n = 1 => d.NumberOfFrames = num_frames
                /\ \A k \in 0..(d.NumberOfFrames - 1) :
                     \A r \in 0..(d.Rows - 1) :
                       \A c \in 0..(d.Columns - 1) :
                          bytes[k * d.Rows * d.Columns + r * d.Columns + c + 1]
                            = produced[FrameOfFile(n, k) + 1][r + 1][c + 1]

C10_Witness ==
    /\ Raw
    /\ pc = "done"
    /\ width = 4
    /\ height = 8
    /\ num_frames = 2
    /\ Len(files[1].stream) = 64
    /\ files[1].stream[34] = produced[2][1][2]
    /\ produced[2][1][2] # produced[2][2][1]

----------------------------------------------------------------------------
(* Parameter errors *)

\* C11: a run requested with a JPEG quality outside 1..100 is rejected
\* before any frame is generated, through main() and through a direct call
\* of generate_jpeg_dicom / generate_realistic_dicom alike: such a run
\* computes nothing, writes no file and never completes.
C11_QualityRejected ==
    (Compressed /\ requested \notin 1..100) =>
        /\ computed = {}
        /\ files = <<>>
        /\ pc # "done"

\* C12: a run requested with a non-positive width or height is rejected
\* before any generation begins: no sector geometry, noise field or frame is
\* computed, no file is written and the run never completes.
C12_NonPositiveSizeRejected ==
    (width <= 0 \/ height <= 0) =>
        /\ computed = {}
        /\ files = <<>>
        /\ pc # "done"

----------------------------------------------------------------------------
(* Cardiac anatomy.  The systole factor is n / SUnit, n in 0..SUnit (SUnit a
   power of two, so that n / SUnit, 1 - n / SUnit and their small multiples
   are exact in binary floating point); int() of a non-negative float is the
   floor of the exact product *)

SUnit == 16

\* int(size / den * (1 - contraction * k)), contraction = c100/100 * n/SUnit
\* and k = k100/100
Shrunk(size, den, c100, k100, n) ==
    (size * (10000 * SUnit - c100 * k100 * n)) \div (den * 10000 * SUnit)

\* int(size / den * (1 + expansion)), expansion = e100/100 * n/SUnit
Grown(size, den, e100, n) ==
    (size * (100 * SUnit + e100 * n)) \div (den * 100 * SUnit)

\* int(dim * p / q) for a constant fraction p / q
Frac(dim, p, q) == (dim * p) \div q

\* int(K * (1 - systole_factor)).  The factor comes out of sin() with a
\* rounding error of sign err; 1 - s keeps the error, so a product that is
\* exactly an integer is truncated to the integer below when err > 0
Opening(K, n, err) ==
    LET e == K * (SUnit - n)
    IN  IF err > 0 /\ e > 0 /\ e % SUnit = 0
        THEN e \div SUnit - 1
        ELSE e \div SUnit

\* CardiacAnatomy.get_lv_contour with inner and outer radii exchanged
get_lv_contour_exchanged(w, h, n) ==
    [outer_rx |-> Shrunk(w * 10, 100, 22, 40, n),
     outer_ry |-> Shrunk(h * 26, 100, 22, 35, n),
     inner_rx |-> Shrunk(w * 14, 100, 22, 15, n),
     inner_ry |-> Shrunk(h * 32, 100, 22, 10, n)]

\* CardiacAnatomy.get_lv_contour: contraction = 0.22 * systole_factor
get_lv_contour(w, h, n) ==
    [outer_rx |-> Shrunk(w * 14, 100, 22, 15, n),
     outer_ry |-> Shrunk(h * 32, 100, 22, 10, n),
     inner_rx |-> Shrunk(w * 10, 100, 22, 40, n),
     inner_ry |-> Shrunk(h * 26, 100, 22, 35, n)]

\* CardiacAnatomy.get_rv_contour: contraction = 0.15 * systole_factor
get_rv_contour(w, h, n) ==
    [outer_rx |-> Shrunk(w * 11, 100, 15, 15, n),
     outer_ry |-> Shrunk(h * 28, 100, 15, 10, n),
     inner_rx |-> Shrunk(w * 8, 100, 15, 35, n),
     inner_ry |-> Shrunk(h * 23, 100, 15, 30, n)]

\* CardiacAnatomy.get_la_contour with the expansion turned into a contraction
get_la_contour_contracting(w, h, n) ==
    [rx |-> Shrunk(w * 12, 100, 12, 100, n),
     ry |-> Shrunk(h * 12, 100, 12, 100, n),
     wall |-> Frac(w, 15, 1000)]

\* CardiacAnatomy.get_la_contour: expansion = 0.12 * systole_factor
get_la_contour(w, h, n) ==
    [rx |-> Grown(w * 12, 100, 12, n),
     ry |-> Grown(h * 12, 100, 12, n),
     wall |-> Frac(w, 15, 1000)]

\* CardiacAnatomy.get_ra_contour: expansion = 0.10 * systole_factor
get_ra_contour(w, h, n) ==
    [rx |-> Grown(w * 10, 100, 10, n),
     ry |-> Grown(h * 11, 100, 10, n),
     wall |-> Frac(w, 12, 1000)]

\* CardiacAnatomy.get_mitral_valve / get_tricuspid_valve: 'opening'
get_mitral_valve(n, err) == Opening(30, n, err)
get_tricuspid_valve(n, err) == Opening(25, n, err)

\* an atrium is drawn as two ellipses: radius + wall thickness, and radius
atrium(rx, ry, wall) ==
    [outer_rx |-> rx + wall, outer_ry |-> ry + wall,
     inner_rx |-> rx, inner_ry |-> ry]

\* the contours of one frame of generate_echo_dicom_realistic.py
\* (draw_heart_structure)
realistic_contours(w, h, n, err) ==
    LET la == get_la_contour(w, h, n)
        ra == get_ra_contour(w, h, n)
    IN  [ventricles |-> << get_lv_contour(w, h, n), get_rv_contour(w, h, n) >>,
         atria |-> << atrium(la.rx, la.ry, la.wall),
                      atrium(ra.rx, ra.ry, ra.wall) >>,
         valves |-> << get_mitral_valve(n, err),
                       get_tricuspid_valve(n, err) >>]

\* generate_4chamber_frame of generate_echo_dicom_v2.py and
\* generate_echo_dicom_jpeg.py: radii in absolute pixels,
\* lv_contraction = 0.18 * s, rv_contraction = 0.12 * s,
\* la_expansion = 0.08 * s, ra_expansion = 0.06 * s
generate_4chamber_frame(n, err) ==
    [ventricles |->
        << [outer_rx |-> Shrunk(75, 1, 18, 30, n),
            outer_ry |-> Shrunk(140, 1, 18, 20, n),
            inner_rx |-> Shrunk(55, 1, 18, 100, n),
            inner_ry |-> Shrunk(115, 1, 18, 80, n)],
           [outer_rx |-> Shrunk(65, 1, 12, 30, n),
            outer_ry |-> Shrunk(120, 1, 12, 20, n),
            inner_rx |-> Shrunk(50, 1, 12, 100, n),
            inner_ry |-> Shrunk(100, 1, 12, 70, n)] >>,
     atria |-> << atrium(Grown(70, 1, 8, n), Grown(55, 1, 8, n), 8),
                  atrium(Grown(60, 1, 6, n), Grown(50, 1, 6, n), 6) >>,
     valves |-> << Opening(25, n, err), Opening(20, n, err) >>]

\* generate_heart_structure of generate_echo_dicom.py:
\* contraction = 0.15 * sin(phase) = cn / cd with sin(phase) = 2 * s - 1
generate_heart_structure(n) ==
    LET cn == 15 * (2 * n - SUnit)
        cd == 100 * SUnit
        outer_rx == (80 * (2 * cd - cn)) \div (2 * cd)
        outer_ry == (120 * (10 * cd - 3 * cn)) \div (10 * cd)
    IN  [ventricles |->
            << [outer_rx |-> outer_rx,
                outer_ry |-> outer_ry,
                inner_rx |-> (outer_rx * 6 * (cd - cn)) \div (10 * cd),
                inner_ry |-> (outer_ry * 6 * (cd - cn)) \div (10 * cd)] >>,
         atria |-> <<>>,
         valves |-> << (30 * (cd + cn)) \div cd >>]

\* the contours variant v draws for systole factor n / SUnit
contours(v, w, h, n, err) ==
    CASE v = "v1" -> generate_heart_structure(n)
      [] v \in {"v2", "jpeg"} -> generate_4chamber_frame(n, err)
      [] v = "realistic" -> realistic_contours(w, h, n, err)

\* the bounding boxes draw_heart_structure passes to draw.ellipse for one
\* ventricle: the wall from apex_y down to cy + outer_ry, the cavity from
\* apex_y + drop down to cy + inner_ry
ventricle_boxes(cx, cy, apex_y, drop, radii) ==
    [wall |-> [x0 |-> cx - radii.outer_rx, y0 |-> apex_y,
               x1 |-> cx + radii.outer_rx, y1 |-> cy + radii.outer_ry],
     cavity |-> [x0 |-> cx - radii.inner_rx, y0 |-> apex_y + drop,
                 x1 |-> cx + radii.inner_rx, y1 |-> cy + radii.inner_ry]]

\* draw_heart_structure: the left and the right ventricle, with the centres
\* and apex_y of CardiacAnatomy (apex_y = int(height * 0.08), + 15 for the
\* left and + 25 for the right ventricle)
draw_heart_structure(w, h, n) ==
    << ventricle_boxes(w \div 2 - Frac(w, 8, 100), Frac(h, 30, 100),
                       Frac(h, 8, 100) + 15, 20, get_lv_contour(w, h, n)),
       ventricle_boxes(w \div 2 + Frac(w, 12, 100), Frac(h, 28, 100),
                       Frac(h, 8, 100) + 25, 15, get_rv_contour(w, h, n)) >>

----------------------------------------------------------------------------
(* The runs, continued: drawing the heart structure *)

\* some ellipse of draw_heart_structure gets a box with y1 < y0.  Radii are
\* never negative, so no box is inverted once the lowest top, apex_y + 40,
\* is not below the highest centre line, int(height * 0.28); the boxes are
\* only evaluated for the heights below that
BoxInverted(w, h) ==
    /\ Frac(h, 8, 100) + 40 > Frac(h, 28, 100)
    /\ \E n \in 0..SUnit : \E k \in 1..2 :
          \/ draw_heart_structure(w, h, n)[k].wall.y0
                > draw_heart_structure(w, h, n)[k].wall.y1
          \/ draw_heart_structure(w, h, n)[k].cavity.y0
                > draw_heart_structure(w, h, n)[k].cavity.y1

\* generate_realistic_frame: the speckle field was generated, then
\* draw.ellipse is handed an inverted box.  Recent Pillow versions raise
\* ValueError, which nothing catches; older ones draw nothing and the frame
\* is completed (EncodeFrame)
DrawHeartFails ==
    /\ pc = "loop"
    /\ variant = "realistic"
    /\ i < num_frames
    /\ ~FrameRaises(variant, width, height)
    /\ BoxInverted(width, height)
    /\ computed' = computed \cup {"sector", "noise"}
    /\ pc' = "aborted"
    /\ raised' = "frame"
    /\ UNCHANGED <<variant, width, height, num_frames, target_bytes,
                   frame_rate, include_color, i, frames, jpeg_frames,
                   produced, ds, files>>
    /\ UNCHANGED <<callVars, studyVars>>

Next ==
    \/ Main
    \/ Start
    \/ SizeFails
    \/ GenerateFrame
    \/ GenerateFrameFails
    \/ DrawHeartFails
    \/ StackFails
    \/ CreateRawDataset
    \/ EncodeFrame
    \/ EncodeFrameFails
    \/ CompressionRatioFails
    \/ CreateCompressedDataset
    \/ SaveAs
    \/ SaveSingleFrame
    \/ FinishSingles

Spec == Init /\ [][Next]_vars

----------------------------------------------------------------------------
(* Direct evaluation of the contour functions for chosen systole factors *)

ScenarioSide == 64

AnatomySides == (1..MaxSide) \cup {ScenarioSide}

\* the variables of a run, at rest
NoRun ==
    /\ frame_rate = 1
    /\ target_bytes = 0
    /\ include_color = FALSE
    /\ i = 0
    /\ frames = <<>>
    /\ jpeg_frames = <<>>
    /\ produced = <<>>
    /\ ds = NoDataset
    /\ files = <<>>
    /\ entry = "direct"
    /\ requested = DefaultQuality
    /\ quality = requested
    /\ computed = {}
    /\ raised = "none"

runVars == <<variant, width, height, num_frames, target_bytes, frame_rate,
             include_color, pc, i, frames, jpeg_frames, produced, ds, files,
             entry, quality, requested, computed, raised>>

InitAnatomy ==
    /\ variant \in {"v1", "v2", "jpeg", "realistic"}
    /\ width \in (IF variant = "realistic" THEN AnatomySides
                                           ELSE {ScenarioSide})
    /\ height \in (IF variant = "realistic" THEN AnatomySides
                                            ELSE {ScenarioSide})
    /\ num_frames = 0
    /\ pc = "anatomy"
    /\ NoRun
    /\ samples = <<>>
    /\ pixel = NoPixel
    /\ rng = Entropy
    /\ calls = <<>>

\* the contours of the chosen variant for one more systole factor
ComputeContours ==
    /\ pc = "anatomy"
    /\ Len(samples) < 2
    /\ \E n \in 0..SUnit :
          samples' = Append(samples,
                            [frame |-> 0, total |-> 0, s |-> n, err |-> 0,
                             contours |-> contours(variant, width, height,
                                                   n, 0),
                             boxes |-> IF variant = "realistic"
                                       THEN draw_heart_structure(width,
                                                                 height, n)
                                       ELSE <<>>])
    /\ UNCHANGED <<runVars, pixel, rng, calls>>

NextAnatomy == ComputeContours

SpecAnatomy == InitAnatomy /\ [][NextAnatomy]_vars

----------------------------------------------------------------------------
(* The cardiac cycle: systole_factor = (sin(2 * pi * frame / total_frames)
   + 1) / 2, for the frames at which the sine is 0, +-1/2 or +-1 *)

MaxCycles == 2

Totals == {1, 2, 4, 12}

\* position of frame f in its cycle, in twelfths of a turn
Twelfth(f, T) == (f * (12 \div T)) % 12

OnGrid(f, T) == Twelfth(f, T) \notin {2, 4, 8, 10}

\* the exact value of (sin(phase) + 1) / 2, in units of 1 / SUnit
systole_factor(f, T) ==
    LET j == Twelfth(f, T)
    IN  CASE j \in {0, 6} -> SUnit \div 2
          [] j \in {1, 5} -> (3 * SUnit) \div 4
          [] j = 3 -> SUnit
          [] j \in {7, 11} -> SUnit \div 4
          [] j = 9 -> 0

\* the sign of (computed factor - exact factor): frame / total_frames,
\* 2 * pi * cycle and sin() are each rounded, phase is never reduced modulo
\* one turn; frame 0 is exact (sin(0) = 0) and at the peaks the sine rounds
\* to +-1
RoundingSigns(f, T) ==
    IF f = 0 \/ systole_factor(f, T) \in {0, SUnit} THEN {0} ELSE {-1, 0, 1}

InitCycle ==
    /\ variant \in {"v2", "jpeg", "realistic"}
    /\ width = ScenarioSide
    /\ height = ScenarioSide
    /\ num_frames \in Totals
    /\ pc = "cycle"
    /\ NoRun
    /\ samples = <<>>
    /\ pixel = NoPixel
    /\ rng = Entropy
    /\ calls = <<>>

\* generate_4chamber_frame / generate_realistic_frame up to the contours, for
\* one more frame index; the same frame index computes the same factor
ComputeFrame ==
    /\ pc = "cycle"
    /\ Len(samples) < 2
    /\ \E f \in 0..(MaxCycles * num_frames - 1) :
         /\ OnGrid(f, num_frames)
         /\ \E e \in RoundingSigns(f, num_frames) :
              /\ \A k \in 1..Len(samples) :
                    samples[k].frame = f => samples[k].err = e
              /\ samples' =
                    Append(samples,
                           [frame |-> f, total |-> num_frames,
                            s |-> systole_factor(f, num_frames), err |-> e,
                            contours |->
                               contours(variant, width, height,
                                        systole_factor(f, num_frames), e)])
    /\ UNCHANGED <<runVars, pixel, rng, calls>>

NextCycle == ComputeFrame

SpecCycle == InitCycle /\ [][NextCycle]_vars

----------------------------------------------------------------------------
(* Anatomy claims *)

SampleSet == { samples[k] : k \in 1..Len(samples) }

Radii == {"outer_rx", "outer_ry", "inner_rx", "inner_ry"}

Chambers(c) ==
    { c.ventricles[k] : k \in 1..Len(c.ventricles) }
        \cup { c.atria[k] : k \in 1..Len(c.atria) }

\* C13: for systole factors s1 <= s2 every ventricular radius (inner and
\* outer, both axes) at s2 is at most its value at s1, and every atrial
\* radius at s2 is at least its value at s1.
C13_VentriclesShrinkAtriaGrow ==
    \A a, b \in SampleSet :
        a.s <= b.s =>
            /\ \A k \in 1..Len(a.contours.ventricles) : \A r \in Radii :
                  b.contours.ventricles[k][r] <= a.contours.ventricles[k][r]
            /\ \A k \in 1..Len(a.contours.atria) : \A r \in Radii :
                  b.contours.atria[k][r] >= a.contours.atria[k][r]

C13_Witness ==
    /\ variant = "realistic"
    /\ width = ScenarioSide
    /\ height = ScenarioSide
    /\ Len(samples) = 2
    /\ samples[1].s = 0
    /\ samples[2].s = SUnit
    /\ samples[2].contours.ventricles[1].inner_ry
         < samples[1].contours.ventricles[1].inner_ry
    /\ samples[2].contours.atria[1].inner_rx
         > samples[1].contours.atria[1].inner_rx

\* C14: in every variant the valve opening is non-increasing in the
\* ventricular contraction: never larger at a more contracted phase than at
\* a less contracted one.
C14_ValveClosesWithContraction ==
    \A a, b \in SampleSet :
        a.s <= b.s =>
            \A k \in 1..Len(a.contours.valves) :
                b.contours.valves[k] <= a.contours.valves[k]

\* C15: the systole factor lies in [0, 1] and the factor, every chamber
\* contour and every valve state of frame f + total_frames equal those of
\* frame f.
C15_Periodic ==
    \A a, b \in SampleSet :
        /\ a.s \in 0..SUnit
        /\ a.s = 0 => a.err >= 0
        /\ a.s = SUnit => a.err <= 0
        /\ (a.total >= 1 /\ b.total = a.total
              /\ b.frame = a.frame + a.total) =>
              /\ b.s = a.s
              /\ b.err = a.err
              /\ b.contours = a.contours

\* C16: for every chamber, every systole factor and every width >= 1,
\* height >= 1, each outer radius is at least the corresponding inner radius
\* and each inner radius is at least 0 (atria: outer = radius + wall
\* thickness).
C16_OuterCoversInner ==
    \A a \in SampleSet : \A ch \in Chambers(a.contours) :
        /\ ch.outer_rx >= ch.inner_rx
        /\ ch.outer_ry >= ch.inner_ry
        /\ ch.inner_rx >= 0
        /\ ch.inner_ry >= 0

C16_Witness ==
    /\ variant = "realistic"
    /\ width = 1
    /\ height = ScenarioSide
    /\ Len(samples) = 2
    /\ samples[1].s = 0
    /\ samples[2].s = SUnit
    /\ \A ch \in Chambers(samples[2].contours) : ch.inner_rx = 0
    /\ samples[1].contours.ventricles[1].outer_ry
         > samples[1].contours.ventricles[1].inner_ry

\* C17: every radius handed to the rasterizer is at least 1 pixel, for all
\* width >= 1, height >= 1 and every systole factor: a radius that would
\* collapse to 0 is clamped to 1.
C17_RadiiAtLeastOne ==
    \A a \in SampleSet : \A ch \in Chambers(a.contours) : \A r \in Radii :
        ch[r] >= 1

----------------------------------------------------------------------------
(* One pixel through the frame pipeline.  Float images are in hundredths
   (PUnit), products of two of them in PUnit * PUnit *)

PUnit == 100

\* np.clip
Clip(x, lo, hi) == IF x < lo THEN lo ELSE IF x > hi THEN hi ELSE x

\* (image * 255).astype(np.uint8) of a value in PUnit * PUnit
Quantize(x) == (x * 255) \div (PUnit * PUnit)

\* where a pixel lies: inside mv_mask (and inside fast_flow), inside tv_mask
Regions == {"none", "mv", "mv_fast", "tv"}

\* samples of np.random.normal(0, 0.05, flow_rgb.shape) at one pixel
NoiseSamples == { <<0, 0, 0>>, <<6, -5, 0>>, <<-5, 0, 6>>, <<-6, -6, -6>>,
                  <<6, 6, 6>> }

\* generate_color_doppler_flow without the test diastole_factor > 0.3
generate_color_doppler_flow_unconditional(n, region, noise) ==
    LET diastole == SUnit - n
        intensity == (diastole * n * PUnit) \div (SUnit * SUnit)
        red == IF region = "mv_fast"
               THEN Clip((intensity * 3) \div 10, 0, PUnit) ELSE 0
        blue == IF region = "tv"
                THEN Clip((diastole * 70) \div SUnit, 0, PUnit)
                ELSE IF region \in {"mv", "mv_fast"}
                     THEN Clip((intensity * 9) \div 10, 0, PUnit)
                     ELSE 0
        flow == <<red, 0, blue>>
    IN  [c \in 1..3 |-> Clip(flow[c] + noise[c], 0, PUnit)]

\* generate_color_doppler_flow at one pixel: systole factor n / SUnit, with
\* e_wave = sin(frame_phase * 2 * pi) * 0.5 + 0.5 = n / SUnit
generate_color_doppler_flow(n, region, noise) ==
    LET diastole == SUnit - n
        active == diastole * 10 > 3 * SUnit
        intensity == (diastole * n * PUnit) \div (SUnit * SUnit)
        red == IF active /\ region = "mv_fast"
               THEN Clip((intensity * 3) \div 10, 0, PUnit) ELSE 0
        blue == IF active /\ region = "tv"
                THEN Clip((diastole * 70) \div SUnit, 0, PUnit)
                ELSE IF active /\ region \in {"mv", "mv_fast"}
                     THEN Clip((intensity * 9) \div 10, 0, PUnit)
                     ELSE 0
        flow == <<red, 0, blue>>
    IN  [c \in 1..3 |-> Clip(flow[c] + noise[c], 0, PUnit)]

\* generate_realistic_frame from the mask multiplication on: pre is the
\* image after TGC and lateral blur, heart the drawn structure
realistic_pixel(pre, mask, heart, doppler, color) ==
    LET image == Clip(pre * mask, 0, PUnit * PUnit)
        blend(c) == IF heart < 10 /\ doppler[c] > 5
                    THEN (doppler[c] * PUnit * 8 + image * 2) \div 10
                    ELSE image
    IN  IF color
        THEN [c \in 1..3 |-> Quantize(Clip(blend(c), 0, PUnit * PUnit))]
        ELSE [c \in 1..3 |-> Quantize(image)]

\* generate_echo_frame_v2 / generate_echo_frame (jpeg) from the mask
\* multiplication on: image * mask, clip(image * 1.2), clip, uint8
echo_frame_v2_pixel(pre, mask) ==
    LET image == Clip((pre * mask * 12) \div 10, 0, PUnit * PUnit)
    IN  [c \in 1..1 |-> Quantize(image)]

\* generate_echo_frame (v1) from the mask multiplication on: image * mask,
\* image * attenuation, clip, uint8
echo_frame_v1_pixel(pre, mask, attenuation) ==
    LET image == Clip((pre * mask * attenuation) \div PUnit, 0, PUnit * PUnit)
    IN  [c \in 1..1 |-> Quantize(image)]

InitPixel ==
    /\ variant \in {"v1", "v2", "jpeg", "realistic"}
    /\ width = ScenarioSide
    /\ height = ScenarioSide
    /\ num_frames = 0
    /\ pc = "pixel"
    /\ NoRun
    /\ samples = <<>>
    /\ pixel = NoPixel
    /\ rng = Entropy
    /\ calls = <<>>

\* the pipeline computes one pixel of one frame: the inputs are the systole
\* factor of the frame, the Doppler flag, and the values the earlier steps
\* left at this pixel
ComposePixel ==
    /\ pc = "pixel"
    /\ pixel = NoPixel
    /\ \E n \in {0, SUnit \div 2, 11, 12, SUnit},
          color \in (IF variant = "realistic" THEN BOOLEAN ELSE {FALSE}),
          region \in Regions, noise \in NoiseSamples,
          mask \in {0, PUnit \div 2, PUnit},
          pre \in {0, 30, 150}, heart \in {6, 60},
          attenuation \in (IF variant = "v1" THEN {70, PUnit} ELSE {PUnit}) :
         LET doppler == IF color
                        THEN generate_color_doppler_flow(n, region, noise)
                        ELSE <<0, 0, 0>>
         IN  pixel' =
               [stage |-> "composed", s |-> n, color |-> color,
                region |-> IF color THEN region ELSE "none",
                mask |-> mask, heart |-> heart, noise |-> noise,
                doppler |-> doppler,
                image |-> Clip(pre * mask, 0, PUnit * PUnit),
                raster |->
                  CASE variant = "realistic" ->
                         realistic_pixel(pre, mask, heart, doppler, color)
                    [] variant \in {"v2", "jpeg"} ->
                         echo_frame_v2_pixel(pre, mask)
                    [] variant = "v1" ->
                         echo_frame_v1_pixel(pre, mask, attenuation)]
    /\ UNCHANGED <<runVars, samples, rng, calls>>

NextPixel == ComposePixel

SpecPixel == InitPixel /\ [][NextPixel]_vars

----------------------------------------------------------------------------
(* Frame pipeline claims *)

\* C18: for any width >= 1, height >= 1 and any frame index the frame
\* compositor completes without raising and returns a raster whose every
\* sample is an 8-bit integer in [0, 255].
C18_CompositorCompletes ==
    (width >= 1 /\ height >= 1) =>
        /\ raised # "frame"
        /\ \A k \in 1..Len(frames) : \A r \in 1..height : \A c \in 1..width :
              frames[k][r][c] \in 0..255

\* C19: every raster produced by the frame pipeline, with or without the
\* Doppler overlay, is 0 in every channel at every pixel where the sector
\* mask is 0.
C19_ZeroOutsideSector ==
    (pixel.stage = "composed" /\ pixel.mask = 0) =>
        \A c \in DOMAIN pixel.raster : pixel.raster[c] = 0

\* C20: the overlay of generate_color_doppler_flow is 0 in all three
\* channels at every pixel outside the mitral and tricuspid valve regions,
\* is 0 everywhere when the diastole factor 1 - s does not exceed 0.3, and
\* every channel value lies in [0, 1].
C20_OverlayConfined ==
    (pixel.stage = "composed" /\ pixel.color) =>
        /\ \A c \in 1..3 : pixel.doppler[c] \in 0..PUnit
        /\ pixel.region = "none" => pixel.doppler = <<0, 0, 0>>
        /\ (SUnit - pixel.s) * 10 <= 3 * SUnit => pixel.doppler = <<0, 0, 0>>

\* C20 as it holds: every channel of the overlay lies in [0, 1]; at a pixel
\* outside both valve regions, and at every pixel when the diastole factor
\* does not exceed 0.3, the flow term is absent and each channel is just the
\* noise sample clipped to [0, 1] (0 wherever the sample is not positive).
C20_OverlayFlowConfined ==
    (pixel.stage = "composed" /\ pixel.color) =>
        /\ \A c \in 1..3 : pixel.doppler[c] \in 0..PUnit
        /\ (pixel.region = "none" \/ (SUnit - pixel.s) * 10 <= 3 * SUnit) =>
              \A c \in 1..3 :
                 pixel.doppler[c] = Clip(pixel.noise[c], 0, PUnit)

C20_Witness ==
    /\ pixel.stage = "composed"
    /\ pixel.color
    /\ pixel.region = "tv"
    /\ pixel.s = 12
    /\ pixel.noise = <<6, -5, 0>>
    /\ pixel.doppler = <<6, 0, 0>>

----------------------------------------------------------------------------
(* Direct calls of the speckle generators, with other draws from np.random
   between them *)

MaxCalls == 3

SpeckleSides == 1..(MaxSide + 2)

SpeckleSeeds == {NoSeed, 0, 7}

InitSpeckle ==
    /\ variant \in {"v1", "v2", "jpeg", "realistic"}
    /\ width \in SpeckleSides
    /\ height \in SpeckleSides
    /\ num_frames = 0
    /\ pc = "speckle"
    /\ NoRun
    /\ samples = <<>>
    /\ pixel = NoPixel
    /\ rng = Entropy
    /\ calls = <<>>

\* one call of the variant's speckle generator
CallSpeckle ==
    /\ pc = "speckle"
    /\ Len(samples) < MaxCalls
    /\ \E seed \in (IF variant = "realistic" THEN SpeckleSeeds ELSE {NoSeed}) :
         LET r == speckle_field(variant, width, height, seed, rng)
         IN  /\ samples' = Append(samples, [kind |-> "speckle", seed |-> seed,
                                            before |-> rng,
                                            field |-> r.field])
             /\ rng' = r.rng
    /\ UNCHANGED <<runVars, pixel, calls>>

\* some other code draws from np.random (as np.random.normal in
\* generate_color_doppler_flow does)
OtherDraws ==
    /\ pc = "speckle"
    /\ Len(samples) < MaxCalls
    /\ samples' = Append(samples, [kind |-> "other", seed |-> NoSeed,
                                   before |-> rng, field |-> NoField])
    /\ rng' = advance(rng, 1)
    /\ UNCHANGED <<runVars, pixel, calls>>

NextSpeckle == CallSpeckle \/ OtherDraws

SpecSpeckle == InitSpeckle /\ [][NextSpeckle]_vars

----------------------------------------------------------------------------
(* Speckle claims *)

SpeckleCalls == { k \in 1..Len(samples) : samples[k].kind = "speckle" }

\* C21: for every width >= 1 and height >= 1, multiples of the coarsest
\* octave's downsampling factor or not, each speckle generator returns a
\* field of exactly height x width samples.
C21_SpeckleCoversRaster ==
    pc = "speckle" =>
        \A k \in SpeckleCalls : samples[k].field.shape = <<height, width>>

\* C22: two calls of generate_realistic_speckle with the same width, height
\* and the same seed (not None) return identical fields, whatever the state
\* of the random source before each call and whatever was drawn between.
C22_SameSeedSameField ==
    (pc = "speckle" /\ variant = "realistic") =>
        \A j, k \in SpeckleCalls :
            (samples[j].seed = samples[k].seed /\ samples[j].seed # NoSeed)
                => samples[j].field = samples[k].field

C22_Witness ==
    /\ pc = "speckle"
    /\ variant = "realistic"
    /\ width = 8
    /\ height = 4
    /\ Len(samples) = 3
    /\ samples[1].kind = "speckle"
    /\ samples[2].kind = "other"
    /\ samples[3].kind = "speckle"
    /\ samples[1].seed = 7
    /\ samples[3].seed = 7
    /\ samples[1].before # samples[3].before
    /\ samples[1].field = samples[3].field
    /\ samples[1].field.shape = <<4, 8>>

----------------------------------------------------------------------------
(* Calls of generate_realistic_frame by callers that share np.random.  A
   call touches the random source ten times: seed and three draws for the
   background speckle, seed and three draws for the in-anatomy speckle, one
   draw for the Doppler noise; another caller can run between any two *)

Callers == 1..2

FrameSeeds == {NoSeed, 0, 1}

\* seed = speckle_seed + frame, None when speckle_seed is None
frame_seed(speckle_seed, frame) ==
    IF speckle_seed # NoSeed THEN speckle_seed + frame ELSE NoSeed

\* seed + 1000 if seed else None: None for seed = None and for seed = 0
heart_seed(seed) == IF seed # NoSeed /\ seed # 0 THEN seed + 1000 ELSE NoSeed

NoBlock == [source |-> Entropy, count |-> 0]

\* np.random.normal(0, 0.05, flow_rgb.shape) in generate_color_doppler_flow
doppler_noise(w, h, color, state) ==
    [noise |-> IF color THEN draw(state, 3 * h * w) ELSE NoBlock,
     rng |-> IF color THEN advance(state, 3 * h * w) ELSE state]

\* what generate_realistic_frame draws when nothing else touches np.random
\* during the call; the raster is a function of these and of the arguments
generate_realistic_frame(w, h, frame, color, speckle_seed, state) ==
    LET seed == frame_seed(speckle_seed, frame)
        speckle == realistic_speckle_field(w, h, seed, state)
        heart_speckle == realistic_speckle_field(w, h, heart_seed(seed),
                                                 speckle.rng)
        doppler == doppler_noise(w, h, color, heart_speckle.rng)
    IN  [frame |-> frame,
         drawn |-> speckle.field.samples \o heart_speckle.field.samples
                   \o << doppler.noise >>]

Steps == << "seed", "fine", "medium", "coarse",
            "heart_seed", "heart_fine", "heart_medium", "heart_coarse",
            "doppler", "done" >>

StepAfter(step) == Steps[1 + CHOOSE k \in 1..Len(Steps) : Steps[k] = step]

Scale(step) == CASE step \in {"fine", "heart_fine"} -> 1
                 [] step \in {"medium", "heart_medium"} -> 2
                 [] step \in {"coarse", "heart_coarse"} -> 4

InitCalls ==
    /\ variant = "realistic"
    /\ width = ScenarioSide
    /\ height = ScenarioSide
    /\ num_frames = MaxFrames
    /\ pc = "calls"
    /\ NoRun
    /\ samples = <<>>
    /\ pixel = NoPixel
    /\ rng = Entropy
    /\ \E speckle_seed \in FrameSeeds, color \in BOOLEAN :
          calls \in [Callers ->
                       { [frame |-> f, speckle_seed |-> speckle_seed,
                          color |-> color, step |-> "seed",
                          seeds |-> <<>>, drawn |-> <<>>,
                          overlapped |-> FALSE] : f \in 0..(num_frames - 1) }]

\* caller a has taken a step: every call in progress besides a's has been
\* overlapped by it, and a's by them
Overlap(a, after) ==
    [b \in Callers |->
        LET other == CHOOSE x \in Callers : x # b
            running(x) == calls[x].step \notin {"seed", "done"}
        IN  IF b = a
            THEN [after EXCEPT !.overlapped = @ \/ running(other)]
            ELSE [calls[b] EXCEPT !.overlapped =
                      @ \/ (running(b) /\ after.step # "done")
                        \/ (running(b) /\ calls[a].step # "seed")]]

\* if seed is not None: np.random.seed(seed), for either speckle field
SeedSpeckle(a) ==
    /\ pc = "calls"
    /\ calls[a].step \in {"seed", "heart_seed"}
    /\ LET first == frame_seed(calls[a].speckle_seed, calls[a].frame)
           seed == IF calls[a].step = "seed" THEN first ELSE heart_seed(first)
       IN  /\ rng' = IF seed # NoSeed THEN np_random_seed(seed) ELSE rng
           /\ calls' = Overlap(a, [calls[a] EXCEPT
                                      !.step = StepAfter(@),
                                      !.seeds = Append(@, seed)])
    /\ UNCHANGED <<runVars, samples, pixel>>

\* np.random.rayleigh(..., (height // s, width // s))
DrawOctave(a) ==
    /\ pc = "calls"
    /\ calls[a].step \in {"fine", "medium", "coarse",
                          "heart_fine", "heart_medium", "heart_coarse"}
    /\ LET n == octave_size(height, width, Scale(calls[a].step))
       IN  /\ rng' = advance(rng, n)
           /\ calls' = Overlap(a, [calls[a] EXCEPT
                                      !.step = StepAfter(@),
                                      !.drawn = Append(@, draw(rng, n))])
    /\ UNCHANGED <<runVars, samples, pixel>>

\* generate_color_doppler_flow when include_color_doppler, then the raster
DrawDoppler(a) ==
    /\ pc = "calls"
    /\ calls[a].step = "doppler"
    /\ LET d == doppler_noise(width, height, calls[a].color, rng)
       IN  /\ rng' = d.rng
           /\ calls' = Overlap(a, [calls[a] EXCEPT
                                      !.step = "done",
                                      !.drawn = Append(@, d.noise)])
    /\ UNCHANGED <<runVars, samples, pixel>>

NextCalls == \E a \in Callers : SeedSpeckle(a) \/ DrawOctave(a) \/ DrawDoppler(a)

SpecCalls == InitCalls /\ [][NextCalls]_vars

----------------------------------------------------------------------------
(* Seeding claims *)

\* the arguments of generate_realistic_frame that are not geometry or frame
FrameConfigurations ==
    [include_color_doppler : BOOLEAN, speckle_seed : FrameSeeds]

\* C23: frame generation supports both seeding policies as a configuration
\* choice: some configuration gives every frame of a run the same speckle
\* seed, and some configuration gives frame i the seed base + i.
C23_BothSeedPolicies ==
    (pc = "calls" /\ calls[1].frame # calls[2].frame) =>
        /\ \E cfg \in FrameConfigurations :
              /\ cfg.speckle_seed # NoSeed
              /\ \A a \in Callers :
                    frame_seed(cfg.speckle_seed, calls[a].frame)
                        = cfg.speckle_seed + calls[a].frame
        /\ \E cfg \in FrameConfigurations :
              /\ frame_seed(cfg.speckle_seed, calls[1].frame) # NoSeed
              /\ frame_seed(cfg.speckle_seed, calls[1].frame)
                    = frame_seed(cfg.speckle_seed, calls[2].frame)

\* C25: with a speckle_seed that is not None, the raster of frame i depends
\* only on the arguments of the call: it is what the call produces on its
\* own, whatever was generated before and however the calls interleave.
C25_RasterDependsOnArguments ==
    pc = "calls" =>
        \A a \in Callers :
            (calls[a].step = "done" /\ calls[a].speckle_seed # NoSeed) =>
                calls[a].drawn =
                    generate_realistic_frame(width, height, calls[a].frame,
                                             calls[a].color,
                                             calls[a].speckle_seed,
                                             Entropy).drawn

\* C25 for calls that do not overlap in time
C25_SequentialCallsAgree ==
    pc = "calls" =>
        \A a \in Callers :
            (/\ calls[a].step = "done"
             /\ calls[a].speckle_seed # NoSeed
             /\ ~calls[a].overlapped) =>
                calls[a].drawn =
                    generate_realistic_frame(width, height, calls[a].frame,
                                             calls[a].color,
                                             calls[a].speckle_seed,
                                             Entropy).drawn

\* C26: whenever speckle_seed is not None, the in-anatomy speckle field of
\* every frame is seeded explicitly with frame seed + 1000 and never falls
\* back to the unseeded random source.
C26_HeartSpeckleSeeded ==
    pc = "calls" =>
        \A a \in Callers :
            (Len(calls[a].seeds) = 2 /\ calls[a].speckle_seed # NoSeed) =>
                /\ calls[a].seeds[2] # NoSeed
                /\ calls[a].seeds[2] = calls[a].seeds[1] + 1000

----------------------------------------------------------------------------
(* Resolution independence *)

\* X is x scaled by k, up to the truncation of at most two terms
Scaled(x, X, k) == k * x <= X /\ X <= k * x + 2 * (k - 1)

\* C24: every geometric output of the anatomy model is a fraction of the
\* image width or height and contains no absolute pixel constant: scaling
\* width and height by k scales every such output by k, up to integer
\* truncation.
C24_ScalesWithImage ==
    pc = "anatomy" =>
        \A a \in SampleSet :
            LET one == a.contours
                two == contours(variant, 2 * width, 2 * height, a.s, a.err)
            IN  /\ \A k \in 1..Len(one.ventricles) : \A r \in Radii :
                      Scaled(one.ventricles[k][r], two.ventricles[k][r], 2)
                /\ \A k \in 1..Len(one.atria) : \A r \in Radii :
                      Scaled(one.atria[k][r], two.atria[k][r], 2)
                /\ \A k \in 1..Len(one.valves) :
                      Scaled(one.valves[k], two.valves[k], 2)

\* the radii of generate_echo_dicom_realistic.py alone do scale
RealisticRadiiScale ==
    (pc = "anatomy" /\ variant = "realistic") =>
        \A a \in SampleSet :
            LET one == a.contours
                two == contours(variant, 2 * width, 2 * height, a.s, a.err)
            IN  /\ \A k \in 1..Len(one.ventricles) : \A r \in Radii :
                      Scaled(one.ventricles[k][r], two.ventricles[k][r], 2)
                /\ \A k \in 1..Len(one.atria) : \A r \in Radii :
                      Scaled(one.atria[k][r], two.atria[k][r], 2)

----------------------------------------------------------------------------
(* Overlay blending *)

\* C27: with the Doppler overlay enabled, a pixel of the composed raster
\* differs from its grayscale value only if the composited grayscale value
\* at that pixel is below the blood threshold 0.1 and the overlay value
\* exceeds the minimum 0.05; everywhere else all three channels equal the
\* grayscale value.
C27_OverlayOnlyOnBlood ==
    (pixel.stage = "composed" /\ variant = "realistic" /\ pixel.color) =>
        ((\E c \in 1..3 : pixel.raster[c] # Quantize(pixel.image)) =>
            /\ pixel.image < 10 * PUnit
            /\ \E c \in 1..3 : pixel.doppler[c] > 5)

\* the test the code makes: the drawn heart structure is below 0.1
OverlayOnlyOnDarkStructure ==
    (pixel.stage = "composed" /\ variant = "realistic" /\ pixel.color) =>
        ((\E c \in 1..3 : pixel.raster[c] # Quantize(pixel.image)) =>
            /\ pixel.heart < 10
            /\ \E c \in 1..3 : pixel.doppler[c] > 5)

----------------------------------------------------------------------------
(* Declared samples per pixel *)

\* components of a JPEG stream compressed from an image of this mode
ModeChannels(m) == IF m = "RGB" THEN 3 ELSE 1

\* C28: in every file written by generate_realistic_dicom, for both values
\* of include_color_doppler, the declared SamplesPerPixel and photometric
\* mode (3 / colour or 1 / MONOCHROME2) agree with the number of channels of
\* the rasters that were compressed into the fragments, and the declared
\* Rows / Columns equal the raster height / width.
C28_DeclaredSamplesMatchRasters ==
    variant = "realistic" =>
        \A k \in 1..Len(files) :
            LET d == files[k].dataset
            IN  /\ d.Rows = height
                /\ d.Columns = width
                /\ d.SamplesPerPixel = 1
                       <=> d.PhotometricInterpretation = "MONOCHROME2"
                /\ \A m \in computed \cap {"RGB", "L"} :
                       d.SamplesPerPixel = ModeChannels(m)

\* the declaration of the file written with include_color_doppler = True
ColourFileDeclaresRasters ==
    (variant = "realistic" /\ include_color) =>
        \A k \in 1..Len(files) :
            LET d == files[k].dataset
            IN  /\ d.Rows = height
                /\ d.Columns = width
                /\ \A m \in computed \cap {"RGB", "L"} :
                       d.SamplesPerPixel = ModeChannels(m)

----------------------------------------------------------------------------
(* Ellipse bounding boxes *)

WellFormedBox(b) == b.x0 <= b.x1 /\ b.y0 <= b.y1

BoxInside(inner, outer) ==
    /\ outer.x0 <= inner.x0
    /\ inner.x1 <= outer.x1
    /\ outer.y0 <= inner.y0
    /\ inner.y1 <= outer.y1

\* C29: for every ventricle drawn by draw_heart_structure, every width >= 1,
\* height >= 1 and every systole factor in [0, 1], the wall ellipse and the
\* cavity ellipse have well-formed bounding boxes (x0 <= x1, y0 <= y1) and
\* the cavity's box lies inside the wall's box, at 64 x 64 in particular.
C29_VentricleBoxesWellFormed ==
    (pc = "anatomy" /\ variant = "realistic") =>
        \A a \in SampleSet : \A k \in 1..Len(a.boxes) :
            /\ WellFormedBox(a.boxes[k].wall)
            /\ WellFormedBox(a.boxes[k].cavity)
            /\ BoxInside(a.boxes[k].cavity, a.boxes[k].wall)

\* the two statements of C29 that do hold: boxes are never inverted
\* horizontally, and a cavity box never sticks out of its wall box
VentricleBoxesNested ==
    (pc = "anatomy" /\ variant = "realistic") =>
        \A a \in SampleSet : \A k \in 1..Len(a.boxes) :
            /\ a.boxes[k].wall.x0 <= a.boxes[k].wall.x1
            /\ a.boxes[k].cavity.x0 <= a.boxes[k].cavity.x1
            /\ BoxInside(a.boxes[k].cavity, a.boxes[k].wall)

----------------------------------------------------------------------------
(* Empty runs *)

\* C30: no generator ever writes an output file that declares zero frames:
\* a run requested with num_frames <= 0 ends with an error before any file
\* is written, in generate_echo_dicom_files, generate_jpeg_dicom and
\* generate_realistic_dicom.
C30_NoZeroFrameFile ==
    /\ \A k \in 1..Len(files) : files[k].dataset.NumberOfFrames >= 1
    /\ (variant \in {"v1", "jpeg", "realistic"} /\ num_frames <= 0) =>
          files = <<>> /\ pc # "done"

\* C30 for the generators that do end an empty run with an error
EmptyRunFailsElsewhere ==
    variant # "realistic" =>
        /\ \A k \in 1..Len(files) : files[k].dataset.NumberOfFrames >= 1
        /\ (variant \in {"v1", "jpeg"} /\ num_frames <= 0) =>
              files = <<>> /\ pc # "done"

----------------------------------------------------------------------------
(* Shape of the state *)

TypeOK ==
    /\ pc \in {"main", "start", "loop", "save", "singles", "done", "aborted",
             "direct", "anatomy", "cycle", "pixel", "speckle", "calls"}
    /\ i \in 0..MaxFrames
    /\ Len(files) <= MaxFrames + 1

====
